---- MODULE Spec2Model ----
(***************************************************************************)
(* Middleware resolution and execution of netbuilder                       *)
(* (src/src/Internal/MiddlewareResolver.ts): the stage registry            *)
(* (getMiddlewares), the stage channel (createChannel / close), the chain  *)
(* executor (checkMiddlewares) and the two call adapters (CreateReceiver,  *)
(* CreateSender).                                                          *)
(*                                                                         *)
(* Values are strings and sequences of strings.  A return transform is     *)
(* named by the stage that supplied it and applying it to a value appends  *)
(* its name to the value, so that the order of application is visible.     *)
(***************************************************************************)
EXTENDS Integers, Sequences, FiniteSets, TLC

\* ------------------------------------------------------------------ bounds

\* registry specification: longest target-scoped / global stage list
RegMaxTarget == 3
RegMaxGlobal == 1
\* execution specification: longest target-scoped / global stage list
MaxMiddlewares == 1
MaxGlobalMiddlewares == 1
\* longest raw argument list of a call
MaxArgs == 2
\* steps a stage body takes at most once its channel has closed
MaxLateSteps == 2
\* time that passes between two observations of the clock
TickStep == 20
\* definitions and child namespaces a builder binds at most
MaxDefinitions == 2
MaxNamespaces == 1
\* longest global middleware list a builder is given
MaxGlobalList == 2
\* configuration tables made by Configure with a function
MaxConfigObjects == 2

\* --------------------------------------------------------------- constants

\* MiddlewareResolver.timeout
timeout == 60

\* the value of an absent (undefined / nil) field
Nil == "nil"

\* Players.LocalPlayer
LocalPlayer == "LocalPlayer"

CallIds == {1}
\* the calls of the specification that runs two calls at a time
AllCalls == {1, 2}

Labels == {"x", "y", "Unknown", Nil}
ExecLabels == {"x", "Unknown"}
Kinds == {"Send", "Recv"}

\* what a stage hands to processNext: as new arguments its input unchanged
\* ("same"), its input with its own name appended ("tag") or nothing at all
\* ("none"), and a return transform or none
Accepts ==
    {[op |-> "same", withFn |-> TRUE], [op |-> "tag", withFn |-> TRUE],
     [op |-> "none", withFn |-> TRUE], [op |-> "same", withFn |-> FALSE]}

VARIABLES
    builders,        \* per NetBuilder instance: its private fields
    configurations,  \* the configuration objects, by reference
    isServer,     \* RunService.IsServer()
    definition,   \* the remote definition: Id, Middlewares, Global
    resolved,     \* the chain last returned by getMiddlewares (registry runs)
    pc,           \* per call: "idle", "await" (suspended in expect), "done"
    kind,         \* per call: "Send" or "Recv"
    rawArgs,      \* per call: the adapter's args
    player,       \* per call: checkMiddlewares' player
    middlewares,  \* per call: checkMiddlewares' middlewares
    idx,          \* per call: position of the loop in middlewares
    state,        \* per call: the MiddlewareEntry
    channels,     \* per call: the channels created so far, one per stage
    bodies,       \* per call: the stage bodies spawned so far, one per stage
    output,       \* per call: what the adapter returned
    cbCalls       \* per call: the argument lists the real callback received

vars == <<builders, configurations, isServer, definition, resolved, pc, kind,
          rawArgs, player, middlewares, idx, state, channels, bodies, output,
          cbCalls>>

callVars == <<pc, kind, rawArgs, player, middlewares, idx, state, channels,
              bodies, output, cbCalls>>

\* ------------------------------------------------------------------ helpers

Min(a, b) == IF a < b THEN a ELSE b

SeqsUpTo(S, n) == UNION {[1..k -> S] : k \in 0..n}

\* Array.prototype.shift on a copy: the rest, and the removed element
Shift(s) == IF Len(s) = 0 THEN s ELSE Tail(s)
First(s) == IF Len(s) = 0 THEN Nil ELSE Head(s)

\* a stage list whose i-th stage is named prefix+i and labelled labels[i]
StageName(prefix, i) == prefix \o ToString(i)
StageList(prefix, labels) ==
    [i \in 1..Len(labels) |-> [Name |-> StageName(prefix, i), Label |-> labels[i]]]

\* ---------------------------------------------------------------- NetBuilder

BuilderIds == {1, 2}

ConfigKeys == {"k1", "k2"}
ConfigValues == {"default", "set"}

\* a configuration table without any key
NoConfiguration == [k \in ConfigKeys |-> Nil]

\* the table constants.ts exports
DEFAULT_CONFIGURATION == [k \in ConfigKeys |-> "default"]

\* references to configuration tables: the exported one and the tables
\* ConfigurationBuilder.Build() makes
DefaultRef == "DEFAULT_CONFIGURATION"
ConfigRefs == {DefaultRef} \cup {StageName("cfg", i) : i \in 1..MaxConfigObjects}

\* { ...a, ...b }, and the loop of assignments a[k] = v over pairs(b)
Merge(a, b) == [k \in ConfigKeys |-> IF b[k] # Nil THEN b[k] ELSE a[k]]

NoDict == [keys |-> {}, GlobalMiddleware |-> <<>>]

NoBuild == [status |-> "none", message |-> "", list |-> <<>>, dict |-> NoDict]

\* the fields of a NetBuilder after construction
NewBuilder ==
    [made |-> TRUE, definitions |-> <<>>, namespaces |-> <<>>,
     middlewareList |-> <<>>, configuration |-> DefaultRef, result |-> NoBuild]

NoBuilders ==
    /\ builders = [b \in BuilderIds |-> [NewBuilder EXCEPT !.made = FALSE]]
    /\ configurations =
          [r \in ConfigRefs |->
              IF r = DefaultRef THEN DEFAULT_CONFIGURATION ELSE NoConfiguration]

\* the stages of a global middleware list that are not globally enabled
NotEnabled(list) == SelectSeq(list, LAMBDA m : ~m.GlobalEnabled)

BuildError(m) ==
    "[netbuilder] The middleware \"" \o m.Id \o "\" is not globally enabled."

\* the second and third loop of _build: every definition gets its Namespace
\* and is frozen, every child namespace gets its id, parent and configuration
\* and is frozen
BindAll(nb, conf) ==
    [nb EXCEPT
        !.definitions =
            [i \in 1..Len(nb.definitions) |->
                [Id |-> nb.definitions[i].Id, Namespace |-> "dict", frozen |-> TRUE]],
        !.namespaces =
            [i \in 1..Len(nb.namespaces) |->
                [name |-> nb.namespaces[i].name,
                 space |-> [NamespaceId |-> nb.namespaces[i].name,
                            NamespaceParent |-> "dict",
                            Configuration |->
                                Merge(conf, nb.namespaces[i].space.Configuration),
                            frozen |-> TRUE]]]]

\* the dictionary _build returns
Dict(nb) ==
    [keys |-> {nb.definitions[i].Id : i \in 1..Len(nb.definitions)}
                 \cup {nb.namespaces[i].name : i \in 1..Len(nb.namespaces)},
     GlobalMiddleware |-> nb.middlewareList]

Failed(nb) ==
    [status |-> "error", message |-> BuildError(Head(NotEnabled(nb.middlewareList))),
     list |-> nb.middlewareList, dict |-> NoDict]

\* a _build that looks at the global middleware list after its other loops
buildCheckLast(nb, conf) ==
    IF NotEnabled(nb.middlewareList) # <<>>
    THEN [BindAll(nb, conf) EXCEPT !.result = Failed(nb)]
    ELSE [BindAll(nb, conf) EXCEPT
             !.result = [status |-> "ok", message |-> "",
                         list |-> nb.middlewareList, dict |-> Dict(nb)]]

\* NetBuilder._build: the builder after the call, with what the call gave
_build(nb, conf) ==
    IF NotEnabled(nb.middlewareList) # <<>>
    THEN [nb EXCEPT !.result = Failed(nb)]
    ELSE [BindAll(nb, conf) EXCEPT
             !.result = [status |-> "ok", message |-> "",
                         list |-> nb.middlewareList, dict |-> Dict(nb)]]

\* a builder takes calls until it has been built
Open(b) == builders[b].made /\ builders[b].result.status # "ok"

BindDefinition(b) ==
    /\ Open(b)
    /\ Len(builders[b].definitions) < MaxDefinitions
    /\ builders' = [builders EXCEPT ![b].definitions =
          Append(@, [Id |-> StageName("D", Len(@) + 1), Namespace |-> Nil,
                     frozen |-> FALSE])]
    /\ UNCHANGED <<configurations, isServer, definition, resolved>>
    /\ UNCHANGED callVars

BindNamespace(b, config) ==
    /\ Open(b)
    /\ Len(builders[b].namespaces) < MaxNamespaces
    /\ builders' = [builders EXCEPT ![b].namespaces =
          Append(@, [name |-> StageName("N", Len(@) + 1),
                     space |-> [NamespaceId |-> Nil, NamespaceParent |-> Nil,
                                Configuration |-> config, frozen |-> FALSE]])]
    /\ UNCHANGED <<configurations, isServer, definition, resolved>>
    /\ UNCHANGED callVars

UseGlobalMiddleware(b, middleware) ==
    /\ Open(b)
    /\ builders' = [builders EXCEPT ![b].middlewareList = middleware]
    /\ UNCHANGED <<configurations, isServer, definition, resolved>>
    /\ UNCHANGED callVars

AsNamespace(b) ==
    /\ Open(b)
    /\ builders' = [builders EXCEPT ![b] =
          _build(@, configurations[builders[b].configuration])]
    /\ UNCHANGED <<configurations, isServer, definition, resolved>>
    /\ UNCHANGED callVars

\* Build calls _build before it makes the Server and Client tables
Build(b) ==
    /\ Open(b)
    /\ builders' = [builders EXCEPT ![b] =
          _build(@, configurations[builders[b].configuration])]
    /\ UNCHANGED <<configurations, isServer, definition, resolved>>
    /\ UNCHANGED callVars

\* new NetBuilder()
New(b) ==
    /\ ~builders[b].made
    /\ builders' = [builders EXCEPT ![b] = NewBuilder]
    /\ UNCHANGED <<configurations, isServer, definition, resolved>>
    /\ UNCHANGED callVars

\* the table ConfigurationBuilder.Build() returns is a new one
FreshRefs == {r \in ConfigRefs : configurations[r] = NoConfiguration}

\* Configure with a function of the ConfigurationBuilder, or with a partial
\* configuration
Configure(b, config) ==
    /\ Open(b)
    /\ IF config.isFunction
       THEN /\ FreshRefs # {}
            /\ LET r == CHOOSE x \in FreshRefs : TRUE
               IN  /\ builders' = [builders EXCEPT ![b].configuration = r]
                   /\ configurations' = [configurations EXCEPT ![r] = config.value]
       ELSE /\ configurations' = [configurations EXCEPT
                  ![builders[b].configuration] = Merge(@, config.value)]
            /\ UNCHANGED builders
    /\ UNCHANGED <<isServer, definition, resolved>>
    /\ UNCHANGED callVars

\* ------------------------------------------------------------ stage registry

\* NetBuilder.CreateMiddleware: the object it returns has an Id and a
\* GlobalEnabled flag (and the Send/Recv functions) and no Label
CreateMiddleware(id, global) == [Id |-> id, GlobalEnabled |-> global]

\* a stage object as the resolver reads it: reading a field the object does
\* not have gives nil
Stage(m) ==
    [Name |-> m.Id, Label |-> IF "Label" \in DOMAIN m THEN m.Label ELSE Nil]

\* a predicate that takes every two stages of one label for duplicates
SameLabelOnly(m1, m2) == m1.Label = m2.Label

\* the predicate handed to dedupBy
SameLabel(m1, m2) == m1.Label = m2.Label /\ m1.Label # "Unknown"

\* Vec.dedupBy: an element is removed when the predicate holds of it and of
\* the element retained just before it
RECURSIVE dedupByFrom(_, _)
dedupByFrom(kept, rest) ==
    IF rest = <<>> THEN kept
    ELSE IF kept # <<>> /\ SameLabel(Head(rest), kept[Len(kept)])
         THEN dedupByFrom(kept, Tail(rest))
         ELSE dedupByFrom(Append(kept, Head(rest)), Tail(rest))

dedupBy(list) == dedupByFrom(<<>>, list)

getMiddlewares(def) == dedupBy(def.Middlewares \o def.Global)

Definitions(labels, maxT, maxG) ==
    {[Id |-> "Ping",
      Middlewares |-> StageList("T", t),
      Global |-> StageList("G", g)] :
        t \in SeqsUpTo(labels, maxT), g \in SeqsUpTo(labels, maxG)}

\* ------------------------------------------------------------------ results

\* a ThreadResult: Result.ok([args, returnFn]) or Result.err(reason); "none"
\* is the state.Result that has not been set
NoResult == [tag |-> "none", hasArgs |-> FALSE, args |-> <<>>, fn |-> Nil, reason |-> ""]
ResultOk(hasArgs, args, fn) ==
    [tag |-> "ok", hasArgs |-> hasArgs, args |-> args, fn |-> fn, reason |-> ""]
ResultErr(reason) ==
    [tag |-> "err", hasArgs |-> FALSE, args |-> <<>>, fn |-> Nil, reason |-> reason]

isOk(r) == r.tag = "ok"
isErr(r) == r.tag = "err"

\* applying the return transform named fn to a value
CallFn(fn, v) == Append(v, fn)

\* reduce folding from the right: the last function is applied first
RECURSIVE reduceRight(_, _)
reduceRight(fns, init) ==
    IF fns = <<>> THEN init ELSE CallFn(Head(fns), reduceRight(Tail(fns), init))

\* Array.prototype.reduce((acc, fn) => fn(acc), init)
RECURSIVE reduce(_, _)
reduce(fns, init) ==
    IF fns = <<>> THEN init ELSE reduce(Tail(fns), CallFn(Head(fns), init))

\* a push that stores the absent value as an element
pushAlways(arr, x) == Append(arr, x)

\* Array.prototype.push: inserting an absent value leaves the array as it is
push(arr, x) == IF x = Nil THEN arr ELSE Append(arr, x)

\* the value the real callback returns
CallbackValue == <<"v">>

\* --------------------------------------------------------- identity and args

getPlayerFromArgs(args) == IF ~isServer THEN LocalPlayer ELSE First(args)

resolveParameters(args) == IF isServer THEN Shift(args) ELSE args

\* the diagnostic label of a definition
definitionInfo(def) == def.Id

timeoutMsg == "middleware processing has timed out. (" \o ToString(timeout) \o "s)"

\* the reason handed to drop when the timeout fires
TimeoutReason(def) == definitionInfo(def) \o " " \o timeoutMsg

\* the reason a stage hands to drop
StageReason(name) == name \o " rejected"

\* ------------------------------------------------------------ stage channel

\* the channel as createChannel leaves it: the factory coroutine ch has run,
\* co holds no result, the timer is pending; elapsed is the time the pending
\* timer has run, up to the timeout
createChannel ==
    [isDone |-> FALSE, co |-> NoResult, trigger |-> "none", timer |-> "pending",
     elapsed |-> 0, fires |-> 0, chCloses |-> 0, ignored |-> 0]

\* close without the isDone guard
closeUnguarded(ch, result) ==
    [ch EXCEPT !.isDone = TRUE,
               !.co = result,
               !.timer = IF @ = "pending" THEN "cancelled" ELSE @,
               !.elapsed = IF ch.timer = "pending" THEN 0 ELSE @,
               !.fires = @ + 1,
               !.chCloses = @ + 1]

\* close: under the isDone guard hand the result to co, schedule
\* coroutine.close(ch), cancel the timer and fire the bindable
close(ch, result) ==
    IF ~ch.isDone
    THEN [ch EXCEPT !.isDone = TRUE,
                    !.co = result,
                    !.timer = IF @ = "pending" THEN "cancelled" ELSE @,
                    !.elapsed = IF ch.timer = "pending" THEN 0 ELSE @,
                    !.fires = @ + 1,
                    !.chCloses = @ + 1]
    ELSE ch

\* close called by one of accept, reject, timeout; trigger records the caller
\* whose call found the channel open, ignored counts the calls that found it
\* closed
Signal(ch, result, by) ==
    IF ch.isDone THEN [close(ch, result) EXCEPT !.ignored = @ + 1]
    ELSE [close(ch, result) EXCEPT !.trigger = by]

\* a delay that resolves without waiting
TimerDueAtOnce(ch) == ch.timer = "pending"

\* the delay promise has resolved
TimerDue(ch) == ch.timer = "pending" /\ ch.elapsed >= timeout

\* a promise that resolves without waiting for the event
SettledAtOnce(ch) == TRUE

\* Promise.fromEvent(bindable.Event) has resolved
Settled(ch) == ch.fires > 0

\* task.spawn(fn, player, ...state.CurrentParameters) of the callback m[kind]
spawn(m, k, p, params) ==
    [status |-> "alive", stage |-> m.Name, kind |-> k, player |-> p,
     args |-> params, lateSteps |-> 0]

\* ----------------------------------------------------------- chain executor

NoOutput == [adapter |-> "none"]

\* executeFn of CreateReceiver: the argument list the real callback receives
executeFn(p, args) == IF isServer THEN <<p>> \o args ELSE args

\* a receiver without the early return on an Err
ReceiverCallsAlways(st, p) == <<executeFn(p, st.CurrentParameters)>>

\* the calls CreateReceiver makes to the real callback once checkMiddlewares
\* has returned st: none after the early return on an Err
ReceiverCalls(st, p) ==
    IF isErr(st.Result) THEN <<>> ELSE <<executeFn(p, st.CurrentParameters)>>

\* what CreateReceiver returns once checkMiddlewares has returned st
ReceiverOutput(st) ==
    IF isErr(st.Result)
    THEN [adapter |-> "CreateReceiver", Result |-> "ERR", Value |-> <<>>,
          Message |-> st.Result.reason]
    ELSE [adapter |-> "CreateReceiver", Result |-> "OK",
          Value |-> reduce(st.ReturnCallbacks, CallbackValue), Message |-> ""]

\* rustResult: the rust-classes Result of a NetBuilderResult, decided by its
\* Type field; a field the object does not have reads nil
rustResult(v) ==
    IF (IF "Type" \in DOMAIN v THEN v.Type ELSE Nil) = "Ok"
    THEN [tag |-> "ok", value |-> v.Value, reason |-> ""]
    ELSE [tag |-> "err", value |-> <<>>, reason |-> v.Message]

\* Result.or in place of Result.and: this result when it is Ok, the other
\* otherwise
or(self, other) == IF isOk(self) THEN self ELSE other

\* Result.and: the other result when this one is Ok, this one otherwise
and(self, other) == IF isOk(self) THEN other ELSE self

\* what CreateSender returns once checkMiddlewares has returned st
SenderOutput(st) ==
    LET r == and(st.Result, ResultOk(TRUE, st.CurrentParameters, "reduce"))
    IN  [adapter |-> "CreateSender", tag |-> r.tag, args |-> r.args,
         fn |-> [kind |-> r.fn, fns |-> IF isOk(r) THEN st.ReturnCallbacks ELSE <<>>],
         reason |-> r.reason]

\* an empty-chain sender that resolves the parameters as the chain would
EmptySenderResolved(args) ==
    [adapter |-> "CreateSender", tag |-> "ok", args |-> resolveParameters(args),
     fn |-> [kind |-> "identity", fns |-> <<>>], reason |-> ""]

\* what CreateSender returns when the chain is empty:
\* Result.ok([args, (r) => r])
EmptySenderOutput(args) ==
    [adapter |-> "CreateSender", tag |-> "ok", args |-> args,
     fn |-> [kind |-> "identity", fns |-> <<>>], reason |-> ""]

\* applying the function a sender returned
ApplyFn(f, v) == IF f.kind = "reduce" THEN reduce(f.fns, v) ELSE v

\* a handler that records the transform but leaves the parameters alone
handleKeepParameters(st, result) ==
    IF st.Result.tag = "none" \/ isOk(st.Result)
    THEN IF isOk(result)
         THEN [st EXCEPT !.ReturnCallbacks = push(@, result.fn), !.Result = result]
         ELSE [st EXCEPT !.Result = result]
    ELSE st

\* the handler of checkMiddlewares' second then: the entry after a result
handle(st, result) ==
    IF st.Result.tag = "none" \/ isOk(st.Result)
    THEN IF isOk(result)
         THEN [CurrentParameters |-> IF result.hasArgs THEN result.args ELSE <<>>,
               ReturnCallbacks |-> push(st.ReturnCallbacks, result.fn),
               Result |-> result]
         ELSE [st EXCEPT !.Result = result]
    ELSE st

\* a loop without the break
breaksNever(st) == FALSE

\* the loop's break test
breaks(st) == isErr(st.Result)

\* the adapter returns: the receiver calls the real callback unless the
\* chain failed, the sender hands back arguments and composed transform
Return(c, st) ==
    /\ pc' = [pc EXCEPT ![c] = "done"]
    /\ IF kind'[c] = "Recv"
       THEN /\ output' = [output EXCEPT ![c] = ReceiverOutput(st)]
            /\ cbCalls' = [cbCalls EXCEPT ![c] = @ \o ReceiverCalls(st, player'[c])]
       ELSE /\ output' = [output EXCEPT ![c] = SenderOutput(st)]
            /\ UNCHANGED cbCalls

\* one turn of the loop up to expect(): createChannel, then task.spawn of
\* the stage body with the player and the current parameters
StartStage(c, k, st) ==
    /\ pc' = [pc EXCEPT ![c] = "await"]
    /\ idx' = [idx EXCEPT ![c] = k]
    /\ channels' = [channels EXCEPT ![c] = Append(@, createChannel)]
    /\ bodies' = [bodies EXCEPT ![c] =
          Append(@, spawn(middlewares'[c][k], kind'[c], player'[c], st.CurrentParameters))]
    /\ UNCHANGED <<output, cbCalls>>

\* the adapter is called: with an empty chain it returns at once, otherwise
\* checkMiddlewares runs up to the first stage's expect()
Enter(c, k, args) ==
    /\ pc[c] = "idle"
    /\ kind' = [kind EXCEPT ![c] = k]
    /\ rawArgs' = [rawArgs EXCEPT ![c] = args]
    /\ middlewares' = [middlewares EXCEPT ![c] = getMiddlewares(definition)]
    /\ UNCHANGED <<builders, configurations, isServer, definition, resolved>>
    /\ IF Len(getMiddlewares(definition)) > 0
       THEN LET st == [CurrentParameters |-> resolveParameters(args),
                       ReturnCallbacks |-> <<>>, Result |-> NoResult]
            IN  /\ player' = [player EXCEPT ![c] = getPlayerFromArgs(args)]
                /\ state' = [state EXCEPT ![c] = st]
                /\ StartStage(c, 1, st)
       ELSE /\ player' = [player EXCEPT ![c] =
                  IF k = "Recv" THEN getPlayerFromArgs(args) ELSE @]
            /\ pc' = [pc EXCEPT ![c] = "done"]
            /\ UNCHANGED <<idx, state, channels, bodies>>
            /\ IF k = "Recv"
               THEN /\ output' = [output EXCEPT ![c] =
                          [adapter |-> "CreateReceiver", Result |-> "OK",
                           Value |-> CallbackValue, Message |-> ""]]
                    /\ cbCalls' = [cbCalls EXCEPT ![c] =
                          Append(@, executeFn(getPlayerFromArgs(args), args))]
               ELSE /\ output' = [output EXCEPT ![c] = EmptySenderOutput(args)]
                    /\ UNCHANGED cbCalls

\* the function CreateReceiver returned is called with args
CreateReceiver(c, args) == Enter(c, "Recv", args)

\* CreateSender is called with args
CreateSender(c, args) == Enter(c, "Send", args)

\* the awaited channel has settled: the handler takes the result, then the
\* loop breaks, goes on to the next stage, or ends
Resume(c) ==
    /\ pc[c] = "await"
    /\ Settled(channels[c][idx[c]])
    /\ LET st == handle(state[c], channels[c][idx[c]].co)
       IN  /\ state' = [state EXCEPT ![c] = st]
           /\ UNCHANGED <<builders, configurations, isServer, definition, resolved, kind, rawArgs, player,
                          middlewares>>
           /\ IF ~breaks(st) /\ idx[c] < Len(middlewares[c])
              THEN StartStage(c, idx[c] + 1, st)
              ELSE /\ Return(c, st)
                   /\ UNCHANGED <<idx, channels, bodies>>

\* ------------------------------------------------------------- stage bodies

\* the body can run; lateSteps counts the steps it takes once its channel
\* has closed
CanStep(c, k) ==
    /\ k \in 1..Len(bodies[c])
    /\ bodies[c][k].status = "alive"
    /\ bodies[c][k].lateSteps < MaxLateSteps

Stepped(b, ch) == IF ch.isDone THEN [b EXCEPT !.lateSteps = @ + 1] ELSE b

\* continuations that close the channel of the same stage in every call
SignalAnyCall(c, d) == TRUE

\* the calls whose channel the continuations made for call c close: isDone,
\* co and the timer are locals of the createChannel call that made them
SignalCall(c, d) == d = c

\* the channels after a continuation of stage k of call c ran
Closed(chans, c, k, result, by) ==
    [d \in DOMAIN chans |->
        IF SignalCall(c, d) /\ k <= Len(chans[d])
        THEN [chans[d] EXCEPT ![k] = Signal(@, result, by)]
        ELSE chans[d]]

\* the body calls a continuation: close runs in the body's thread, which
\* then stays suspended in close's coroutine.yield() if it went past the guard
BodySignal(c, k, result, by) ==
    /\ CanStep(c, k)
    /\ channels' = Closed(channels, c, k, result, by)
    /\ bodies' = [bodies EXCEPT ![c][k] =
          [Stepped(@, channels[c][k]) EXCEPT
              !.status = IF channels[c][k].isDone THEN "alive" ELSE "yielded"]]
    /\ UNCHANGED <<builders, configurations, isServer, definition, resolved, pc, kind, rawArgs, player,
                   middlewares, idx, state, output, cbCalls>>

NewArgs(op, b) ==
    CASE op = "same" -> b.args
      [] op = "tag" -> Append(b.args, b.stage)
      [] OTHER -> <<>>

\* the body of stage k calls processNext(args, returnFn)
processNext(c, k, op, withFn) ==
    /\ k \in 1..Len(bodies[c])
    /\ BodySignal(c, k,
          ResultOk(op # "none", NewArgs(op, bodies[c][k]),
                   IF withFn THEN bodies[c][k].stage ELSE Nil),
          "accept")

\* the body of stage k calls drop(reason)
drop(c, k) ==
    /\ k \in 1..Len(bodies[c])
    /\ BodySignal(c, k, ResultErr(StageReason(bodies[c][k].stage)), "reject")

\* the body of stage k, still alive after its channel has closed, resumes
\* and does something else (a side effect)
Work(c, k) ==
    /\ CanStep(c, k)
    /\ channels[c][k].isDone
    /\ bodies' = [bodies EXCEPT ![c][k] = Stepped(@, channels[c][k])]
    /\ UNCHANGED <<builders, configurations, isServer, definition, resolved, pc, kind, rawArgs, player,
                   middlewares, idx, state, channels, output, cbCalls>>

\* -------------------------------------------------------------------- timer

\* time passes for the pending timer of channel k
Tick(c, k) ==
    /\ k \in 1..Len(channels[c])
    /\ channels[c][k].timer = "pending"
    /\ channels[c][k].elapsed < timeout
    /\ channels' = [channels EXCEPT ![c][k].elapsed = Min(@ + TickStep, timeout)]
    /\ UNCHANGED <<builders, configurations, isServer, definition, resolved, pc, kind, rawArgs, player,
                   middlewares, idx, state, bodies, output, cbCalls>>

\* the delay promise resolves and its handler calls drop with the message
Timeout(c, k) ==
    /\ k \in 1..Len(channels[c])
    /\ TimerDue(channels[c][k])
    /\ channels' = Closed([channels EXCEPT ![c][k].timer = "resolved"], c, k,
                           ResultErr(TimeoutReason(definition)), "timeout")
    /\ UNCHANGED <<builders, configurations, isServer, definition, resolved, pc, kind, rawArgs, player,
                   middlewares, idx, state, bodies, output, cbCalls>>

\* ------------------------------------------------------------ specifications

\* the raw argument lists of a call: a payload, with or without a player in
\* front of it
RawArgs ==
    {p \o [i \in 1..n |-> "a"] :
        p \in {<<>>, <<"P1">>}, n \in 0..MaxArgs} \cap SeqsUpTo({"P1", "a"}, MaxArgs)

StageIdx == 1..(MaxMiddlewares + MaxGlobalMiddlewares)

IdleCalls ==
    /\ pc = [c \in AllCalls |-> "idle"]
    /\ kind = [c \in AllCalls |-> "none"]
    /\ rawArgs = [c \in AllCalls |-> <<>>]
    /\ player = [c \in AllCalls |-> Nil]
    /\ middlewares = [c \in AllCalls |-> <<>>]
    /\ idx = [c \in AllCalls |-> 0]
    /\ state = [c \in AllCalls |->
          [CurrentParameters |-> <<>>, ReturnCallbacks |-> <<>>, Result |-> NoResult]]
    /\ channels = [c \in AllCalls |-> <<>>]
    /\ bodies = [c \in AllCalls |-> <<>>]
    /\ output = [c \in AllCalls |-> NoOutput]
    /\ cbCalls = [c \in AllCalls |-> <<>>]

Init ==
    /\ NoBuilders
    /\ isServer \in BOOLEAN
    /\ definition \in Definitions(ExecLabels, MaxMiddlewares, MaxGlobalMiddlewares)
    /\ resolved = <<>>
    /\ IdleCalls

Next ==
    \/ \E c \in CallIds, args \in RawArgs : CreateReceiver(c, args)
    \/ \E c \in CallIds, args \in RawArgs : CreateSender(c, args)
    \/ \E c \in CallIds : Resume(c)
    \/ \E c \in CallIds, k \in StageIdx, a \in Accepts :
          processNext(c, k, a.op, a.withFn)
    \/ \E c \in CallIds, k \in StageIdx : drop(c, k)
    \/ \E c \in CallIds, k \in StageIdx : Work(c, k)
    \/ \E c \in CallIds, k \in StageIdx : Tick(c, k)
    \/ \E c \in CallIds, k \in StageIdx : Timeout(c, k)

Spec == Init /\ [][Next]_vars

\* chains of unlabelled stages, none of which the registry drops
FairInit ==
    /\ NoBuilders
    /\ isServer \in BOOLEAN
    /\ definition \in Definitions({"Unknown"}, MaxMiddlewares, MaxGlobalMiddlewares)
    /\ resolved = <<>>
    /\ IdleCalls

\* the scheduler runs due timers and resumes settled chains
FairSpec ==
    /\ FairInit
    /\ [][Next]_vars
    /\ WF_vars(\E c \in CallIds, k \in StageIdx : Tick(c, k))
    /\ WF_vars(\E c \in CallIds, k \in StageIdx : Timeout(c, k))
    /\ WF_vars(\E c \in CallIds : Resume(c))

\* the registry alone, over every labelling of the stage lists
RegInit ==
    /\ NoBuilders
    /\ isServer = TRUE
    /\ definition \in Definitions(Labels, RegMaxTarget, RegMaxGlobal)
    /\ resolved = <<>>
    /\ IdleCalls

Resolve ==
    /\ resolved' = getMiddlewares(definition)
    /\ UNCHANGED <<builders, configurations, isServer, definition>>
    /\ UNCHANGED callVars

RegNext == Resolve

RegSpec == RegInit /\ [][RegNext]_vars

\* two calls of one target in flight at a time, sharing its two stages; each
\* call has arguments of its own
IsoInit ==
    /\ NoBuilders
    /\ isServer = TRUE
    /\ definition = [Id |-> "Ping",
                     Middlewares |-> StageList("T", <<"Unknown">>),
                     Global |-> StageList("G", <<"Unknown">>)]
    /\ resolved = <<>>
    /\ IdleCalls

CallArgs(c) == <<"P" \o ToString(c), "a" \o ToString(c)>>

IsoStageIdx == 1..Len(getMiddlewares(definition))

IsoNext ==
    \/ \E c \in AllCalls : CreateReceiver(c, CallArgs(c))
    \/ \E c \in AllCalls : CreateSender(c, CallArgs(c))
    \/ \E c \in AllCalls : Resume(c)
    \/ \E c \in AllCalls, k \in IsoStageIdx, a \in Accepts :
          processNext(c, k, a.op, a.withFn)
    \/ \E c \in AllCalls, k \in IsoStageIdx : drop(c, k)
    \/ \E c \in AllCalls, k \in IsoStageIdx : Work(c, k)
    \/ \E c \in AllCalls, k \in IsoStageIdx : Tick(c, k)
    \/ \E c \in AllCalls, k \in IsoStageIdx : Timeout(c, k)

IsoSpec == IsoInit /\ [][IsoNext]_vars

\* the global middleware lists a builder is given
GlobalLists ==
    UNION {{[i \in 1..n |-> CreateMiddleware(StageName("M", i), g[i])] :
               g \in [1..n -> BOOLEAN]} : n \in 0..MaxGlobalList}

\* the configurations of a child namespace: none, or one key of its own
SpaceConfigurations == {NoConfiguration, [NoConfiguration EXCEPT !["k1"] = "set"]}

IdleResolver ==
    /\ isServer = TRUE
    /\ definition = [Id |-> "Ping", Middlewares |-> <<>>, Global |-> <<>>]
    /\ resolved = <<>>
    /\ IdleCalls

\* one builder that binds, takes a global middleware list and builds
BuildIds == {1}

BuildInit ==
    /\ NoBuilders
    /\ IdleResolver

BuildNext ==
    \/ \E b \in BuildIds : New(b)
    \/ \E b \in BuildIds : BindDefinition(b)
    \/ \E b \in BuildIds, config \in SpaceConfigurations : BindNamespace(b, config)
    \/ \E b \in BuildIds, list \in GlobalLists : UseGlobalMiddleware(b, list)
    \/ \E b \in BuildIds : AsNamespace(b)
    \/ \E b \in BuildIds : Build(b)

BuildSpec == BuildInit /\ [][BuildNext]_vars

\* what Configure is called with
ConfigInputs ==
    {[isFunction |-> TRUE, value |-> v] : v \in [ConfigKeys -> ConfigValues]}
    \cup {[isFunction |-> FALSE, value |-> v] : v \in [ConfigKeys -> {"set", Nil}]}

\* builders that are made and configured
ConfigNext ==
    \/ \E b \in BuilderIds : New(b)
    \/ \E b \in BuilderIds, config \in ConfigInputs : Configure(b, config)

ConfigSpec == BuildInit /\ [][ConfigNext]_vars

\* ------------------------------------------------------------------- claims

ChannelIdx(c) == 1..Len(channels[c])

\* stage k of call c has rejected or timed out
Rejected(c, k) == k \in ChannelIdx(c) /\ isErr(channels[c][k].co)

\* the arguments an accepting stage handed over
AcceptedArgs(r) == IF r.hasArgs THEN r.args ELSE <<>>

\* C1: the chain getMiddlewares returns never holds two stages with the same
\* label other than "Unknown": of several same-labelled stages only the first
\* is kept, adjacent in the concatenated list or not.
C1_NoDuplicateLabels ==
    \A i, j \in 1..Len(resolved) :
        (i # j /\ resolved[i].Label = resolved[j].Label)
            => resolved[i].Label = "Unknown"

\* C2: once a stage has rejected or timed out, no later stage is started, the
\* argument list and the transform list stay as the last accepting stage left
\* them, and the call ends with that stage's rejection as its result.
C2_NoStageAfterRejection ==
    \A c \in CallIds : \A k \in ChannelIdx(c) :
        Rejected(c, k) =>
            /\ Len(channels[c]) = k
            /\ Len(bodies[c]) = k
            /\ state[c].CurrentParameters = bodies[c][k].args
            /\ pc[c] = "done" => state[c].Result = channels[c][k].co

C2_NoMutationAfterRejection ==
    \A c \in CallIds : \A k \in ChannelIdx(c) :
        Rejected(c, k) =>
            /\ Len(channels'[c]) = Len(channels[c])
            /\ Len(bodies'[c]) = Len(bodies[c])
            /\ state'[c].CurrentParameters = state[c].CurrentParameters
            /\ state'[c].ReturnCallbacks = state[c].ReturnCallbacks
            /\ pc'[c] = "done" => state'[c].Result = ResultErr(channels[c][k].co.reason)

C2_ShortCircuit ==
    [](C2_NoStageAfterRejection) /\ [][C2_NoMutationAfterRejection]_vars

\* a two-stage chain whose first stage rejected has returned
C2_Witness ==
    \E c \in CallIds :
        /\ pc[c] = "done"
        /\ Len(middlewares[c]) = 2
        /\ Len(channels[c]) = 1
        /\ channels[c][1].trigger = "reject"
        /\ state[c].Result = ResultErr(StageReason(middlewares[c][1].Name))

\* C3: a channel closes at most once; the first of accept, reject and timeout
\* fixes the result the chain receives, and a later signal changes neither
\* that result nor the trigger, and does not fire the bindable again.
C3_ClosedOnce ==
    \A c \in CallIds : \A k \in ChannelIdx(c) :
        LET ch == channels[c][k] IN
        /\ ch.fires = (IF ch.isDone THEN 1 ELSE 0)
        /\ ch.chCloses = ch.fires
        /\ ch.isDone <=> ch.co.tag # "none"
        /\ ch.isDone <=> ch.trigger # "none"
        /\ ch.ignored > 0 => ch.isDone
        /\ (k < idx[c] \/ pc[c] = "done") => ch.isDone
        /\ (pc[c] = "done" /\ k = Len(channels[c])) => state[c].Result = ch.co

C3_SettledStays ==
    \A c \in CallIds : \A k \in ChannelIdx(c) :
        channels[c][k].isDone =>
            /\ channels'[c][k].isDone
            /\ channels'[c][k].co = channels[c][k].co
            /\ channels'[c][k].trigger = channels[c][k].trigger
            /\ channels'[c][k].fires = channels[c][k].fires
            /\ channels'[c][k].chCloses = channels[c][k].chCloses

C3_SingleSettlement == [](C3_ClosedOnce) /\ [][C3_SettledStays]_vars

\* a channel the timeout closed has ignored a later accept or reject, and the
\* call has returned the timeout's rejection
C3_Witness ==
    \E c \in CallIds : \E k \in ChannelIdx(c) :
        /\ channels[c][k].trigger = "timeout"
        /\ channels[c][k].ignored > 0
        /\ pc[c] = "done"
        /\ state[c].Result.tag = "err"

\* C4: the timeout settles a channel only once the full duration has passed,
\* and then with the documented message; every open channel is eventually
\* closed and every call eventually returns, whatever the stage bodies do.
C4_TimeoutResult ==
    \A c \in CallIds : \A k \in ChannelIdx(c) :
        channels[c][k].trigger = "timeout" =>
            /\ channels[c][k].elapsed >= 60
            /\ channels[c][k].co =
                  ResultErr(definition.Id \o " middleware processing has timed out. (60s)")

C4_TimeoutLiveness ==
    /\ [](C4_TimeoutResult)
    /\ \A c \in CallIds : \A k \in 1..(MaxMiddlewares + MaxGlobalMiddlewares) :
          (k \in ChannelIdx(c) /\ ~channels[c][k].isDone)
              ~> (k \in ChannelIdx(c) /\ channels[c][k].isDone)
    /\ \A c \in CallIds : (pc[c] = "await") ~> (pc[c] = "done")

\* a stage body that never called a continuation was settled by the timeout
\* and the call has returned the timeout message
C4_Witness ==
    \E c \in CallIds : \E k \in ChannelIdx(c) :
        /\ channels[c][k].trigger = "timeout"
        /\ channels[c][k].ignored = 0
        /\ bodies[c][k].status = "alive"
        /\ pc[c] = "done"
        /\ kind[c] = "Recv"
        /\ output[c].Message = "Ping middleware processing has timed out. (60s)"

\* C5: a stage body whose channel the timeout closed takes no further step:
\* close() has terminated it.
C5_NoOrphanedWork ==
    \A c \in CallIds : \A k \in ChannelIdx(c) :
        channels[c][k].trigger = "timeout" => bodies[c][k].lateSteps = 0

\* C6: the receiver calls the real callback only after every stage of the
\* Recv chain has accepted, and then once; when a stage rejected or timed out
\* it calls it never and returns a failure carrying that stage's reason.
C6_Receiver ==
    \A c \in CallIds :
        /\ Len(cbCalls[c]) <= 1
        /\ cbCalls[c] # <<>> =>
              /\ pc[c] = "done" /\ kind[c] = "Recv"
              /\ Len(channels[c]) = Len(getMiddlewares(definition))
              /\ \A k \in ChannelIdx(c) :
                    /\ channels[c][k].trigger = "accept"
                    /\ bodies[c][k].kind = "Recv"
                    /\ bodies[c][k].stage = getMiddlewares(definition)[k].Name
        /\ (pc[c] = "done" /\ kind[c] = "Recv") =>
              IF \E k \in ChannelIdx(c) : channels[c][k].trigger \in {"reject", "timeout"}
              THEN /\ cbCalls[c] = <<>>
                   /\ output[c].Result = "ERR"
                   /\ \E k \in ChannelIdx(c) :
                         /\ channels[c][k].trigger \in {"reject", "timeout"}
                         /\ output[c].Message = channels[c][k].co.reason
              ELSE /\ Len(cbCalls[c]) = 1
                   /\ output[c].Result = "OK"

\* a receiver whose second stage rejected has returned the failure
C6_Witness ==
    \E c \in CallIds :
        /\ pc[c] = "done" /\ kind[c] = "Recv"
        /\ Len(channels[c]) = 2
        /\ channels[c][1].trigger = "accept"
        /\ channels[c][2].trigger = "reject"
        /\ output[c].Result = "ERR"
        /\ output[c].Message = StageReason(middlewares[c][2].Name)
        /\ cbCalls[c] = <<>>

\* C7: the sender returns Err exactly when a stage of the Send chain rejected
\* or timed out, with that stage's reason; otherwise Ok with the argument list
\* of the last stage and one composed return transform.
C7_Sender ==
    \A c \in CallIds :
        (pc[c] = "done" /\ kind[c] = "Send") =>
            /\ output[c].tag \in {"ok", "err"}
            /\ output[c].tag = "err" <=>
                  \E k \in ChannelIdx(c) : channels[c][k].trigger \in {"reject", "timeout"}
            /\ output[c].tag = "err" =>
                  \E k \in ChannelIdx(c) :
                      /\ channels[c][k].trigger \in {"reject", "timeout"}
                      /\ \A j \in 1..(k - 1) : channels[c][j].trigger = "accept"
                      /\ output[c].reason = channels[c][k].co.reason
            /\ (output[c].tag = "ok" /\ channels[c] # <<>>) =>
                  /\ Len(channels[c]) = Len(getMiddlewares(definition))
                  /\ \A k \in ChannelIdx(c) : bodies[c][k].kind = "Send"
                  /\ output[c].args = AcceptedArgs(channels[c][Len(channels[c])].co)
                  /\ output[c].fn.kind = "reduce"

\* a sender whose second stage timed out has returned the timeout's reason
C7_Witness ==
    \E c \in CallIds :
        /\ pc[c] = "done" /\ kind[c] = "Send"
        /\ Len(channels[c]) = 2
        /\ channels[c][2].trigger = "timeout"
        /\ output[c].tag = "err"
        /\ output[c].reason = TimeoutReason(definition)

\* the transforms the stages of call c supplied, in chain order
Supplied(c) == [k \in ChannelIdx(c) |-> channels[c][k].co.fn]

AllSupplied(c) ==
    /\ pc[c] = "done"
    /\ channels[c] # <<>>
    /\ \A k \in ChannelIdx(c) :
          channels[c][k].trigger = "accept" /\ channels[c][k].co.fn # Nil

\* C8: with N accepting stages supplying transforms t1..tN, the sender's
\* composed transform maps v, and the receiver maps the callback's value v,
\* to tN(...t1(v)): the first stage's transform is applied first.
C8_TransformOrder ==
    \A c \in CallIds :
        AllSupplied(c) =>
            IF kind[c] = "Send"
            THEN \A v \in {<<>>, <<"v">>, <<"w", "w">>} :
                    ApplyFn(output[c].fn, v) = v \o Supplied(c)
            ELSE output[c].Value = <<"v">> \o Supplied(c)

\* both stages of a two-stage chain accepted with a transform of their own
C8_Witness ==
    \E c \in CallIds :
        /\ AllSupplied(c)
        /\ Len(channels[c]) = 2
        /\ channels[c][1].co.fn # channels[c][2].co.fn
        /\ kind[c] = "Recv"
        /\ output[c].Value = <<"v", channels[c][1].co.fn, channels[c][2].co.fn>>

\* C9: the stages of a call are started in chain order, and a stage is started
\* only when the channel of the stage before it has closed: at most one
\* channel of a call is open.
C9_Sequential ==
    \A c \in CallIds :
        /\ Len(channels[c]) = Len(bodies[c])
        /\ Len(channels[c]) <= Len(getMiddlewares(definition))
        /\ \A k \in ChannelIdx(c) :
              /\ bodies[c][k].stage = getMiddlewares(definition)[k].Name
              /\ k < Len(channels[c]) => channels[c][k].isDone
        /\ Cardinality({k \in ChannelIdx(c) : ~channels[c][k].isDone}) <= 1
        /\ pc[c] = "await" => idx[c] = Len(channels[c])

\* the second stage is running while the first stage's channel is closed
C9_Witness ==
    \E c \in CallIds :
        /\ Len(channels[c]) = 2
        /\ channels[c][1].isDone
        /\ ~channels[c][2].isDone
        /\ bodies[c][2].status = "alive"

AllPassThrough(c) ==
    \A k \in ChannelIdx(c) :
        /\ channels[c][k].trigger = "accept"
        /\ channels[c][k].co.hasArgs
        /\ channels[c][k].co.args = bodies[c][k].args

\* C11: with an empty resolved chain the sender returns success with the
\* original argument list and a transform that maps every value to itself,
\* and creates no channel and spawns no stage body.
C11_EmptyChainIdentity ==
    \A c \in CallIds :
        getMiddlewares(definition) = <<>> =>
            /\ channels[c] = <<>>
            /\ bodies[c] = <<>>
            /\ (pc[c] = "done" /\ kind[c] = "Send") =>
                  /\ output[c].tag = "ok"
                  /\ output[c].args = rawArgs[c]
                  /\ \A v \in {<<>>, <<"v">>, <<"w", "w">>} : ApplyFn(output[c].fn, v) = v

\* on the server a sender with an empty chain has returned a two-element list
C11_Witness ==
    \E c \in CallIds :
        /\ isServer
        /\ getMiddlewares(definition) = <<>>
        /\ pc[c] = "done" /\ kind[c] = "Send"
        /\ rawArgs[c] = <<"P1", "a">>
        /\ output[c].args = <<"P1", "a">>

\* C12: on the server, for raw arguments [identity, a1..an], the receiver
\* calls the real callback with exactly (identity, a1..an), with an empty
\* chain as with a chain of stages that hand on their arguments unchanged.
C12_ReceiverIdentityOnce ==
    \A c \in CallIds :
        (/\ isServer
         /\ pc[c] = "done" /\ kind[c] = "Recv"
         /\ rawArgs[c] # <<>>
         /\ Len(channels[c]) = Len(getMiddlewares(definition))
         /\ AllPassThrough(c)) =>
            cbCalls[c] = <<rawArgs[c]>>

\* C13: a Send chain of stages that hand on their arguments unchanged returns
\* exactly the raw outgoing argument list, on the server as on the client, and
\* the identity given to the stages is not taken from that list.
C13_SendKeepsArguments ==
    \A c \in CallIds :
        (/\ pc[c] = "done" /\ kind[c] = "Send"
         /\ Len(channels[c]) = Len(getMiddlewares(definition))
         /\ AllPassThrough(c)) =>
            /\ output[c].tag = "ok"
            /\ output[c].args = rawArgs[c]
            /\ \A k \in ChannelIdx(c) :
                  rawArgs[c] # <<>> => bodies[c][k].player # rawArgs[c][1]

\* the stages of list that are in chain, in the order of list
Restrict(list, chain) ==
    SelectSeq(list, LAMBDA m : \E j \in 1..Len(chain) : chain[j] = m)

\* C14: the chain getMiddlewares returns is the target's stages followed by
\* the global stages with some of them left out, in the same relative order,
\* and no stage labelled "Unknown" is left out.
C14_StableOrder ==
    [][LET all == definition.Middlewares \o definition.Global
       IN  /\ Restrict(all, resolved') = resolved'
           /\ \A i \in 1..Len(all) :
                 all[i].Label = "Unknown" =>
                     \E j \in 1..Len(resolved') : resolved'[j] = all[i]]_vars

\* a resolved chain that lost a labelled stage and kept two adjacent
\* "Unknown" stages
C14_Witness ==
    /\ Len(resolved) = 3
    /\ Len(definition.Middlewares \o definition.Global) = 4
    /\ resolved[1].Label = "Unknown"
    /\ resolved[2].Label = "Unknown"

\* C17: when a target binds two or more stages made by CreateMiddleware with
\* pairwise different identifiers, the resolved chain starts with all of
\* them, in binding order.
C17_CreatedStagesKept ==
    LET bound == definition.Middlewares
    IN  (/\ resolved # <<>>
         /\ Len(bound) >= 2
         /\ \A i \in 1..Len(bound) :
               \E g \in BOOLEAN : bound[i] = Stage(CreateMiddleware(bound[i].Name, g))
         /\ \A i, j \in 1..Len(bound) : i # j => bound[i].Name # bound[j].Name) =>
            /\ Len(resolved) >= Len(bound)
            /\ SubSeq(resolved, 1, Len(bound)) = bound

\* call c has ended and every stage of its chain accepted
AllAccepted(c) ==
    /\ pc[c] = "done"
    /\ channels[c] # <<>>
    /\ \A k \in ChannelIdx(c) : channels[c][k].trigger = "accept"

\* C18: a stage that accepts without a return transform leaves the returned
\* value alone: the sender's transform and the receiver's value are the fold
\* of the transforms that were supplied, in chain order, and the value itself
\* when none was supplied.
C18_NoTransformIsIdentity ==
    \A c \in CallIds :
        AllAccepted(c) =>
            LET given == SelectSeq(Supplied(c), LAMBDA f : f # Nil)
            IN  IF kind[c] = "Send"
                THEN \A v \in {<<>>, <<"v">>, <<"w", "w">>} :
                        ApplyFn(output[c].fn, v) = v \o given
                ELSE output[c].Value = CallbackValue \o given

\* the first of two stages accepted without a transform, the second with one
C18_Witness ==
    \E c \in CallIds :
        /\ AllAccepted(c)
        /\ Len(channels[c]) = 2
        /\ channels[c][1].co.fn = Nil
        /\ channels[c][2].co.fn # Nil
        /\ kind[c] = "Recv"
        /\ output[c].Value = <<"v", channels[c][2].co.fn>>

\* C20: rustResult of what the receiver returned is Ok of the returned value
\* when the chain succeeded and Err of the rejection reason when it did not.
C20_RustResultAgrees ==
    \A c \in CallIds :
        (pc[c] = "done" /\ kind[c] = "Recv") =>
            LET r == rustResult(output[c])
            IN  IF isErr(state[c].Result)
                THEN r.tag = "err" /\ r.reason = state[c].Result.reason
                ELSE r.tag = "ok" /\ r.value = output[c].Value

\* everything the model keeps for call c
CallState(c) ==
    <<pc[c], kind[c], rawArgs[c], player[c], middlewares[c], idx[c], state[c],
      channels[c], bodies[c], output[c], cbCalls[c]>>

\* the entry of an ended call c is what its own channels settled with
OwnSettlements(c) ==
    (pc[c] = "done" /\ channels[c] # <<>>) =>
        LET last == channels[c][Len(channels[c])]
            accepted == SelectSeq(channels[c], LAMBDA ch : ch.trigger = "accept")
        IN  /\ state[c].Result = last.co
            /\ state[c].ReturnCallbacks =
                  SelectSeq([k \in 1..Len(accepted) |-> accepted[k].co.fn],
                            LAMBDA f : f # Nil)
            /\ state[c].CurrentParameters =
                  (IF accepted = <<>> THEN resolveParameters(rawArgs[c])
                   ELSE AcceptedArgs(accepted[Len(accepted)].co))
            /\ \A i \in 1..Len(state[c].CurrentParameters) :
                  \/ \E j \in 1..Len(rawArgs[c]) :
                        state[c].CurrentParameters[i] = rawArgs[c][j]
                  \/ \E k \in 1..Len(bodies[c]) :
                        state[c].CurrentParameters[i] = bodies[c][k].stage

\* C16: with two calls of one target in flight, sharing the stage objects, a
\* step of one call (a stage spawned, a channel closed by accept, reject or
\* timeout, the chain resumed) leaves everything of the other call as it was,
\* and the arguments, the transforms and the result a call ends with are those
\* of its own channels' settlements.
C16_Isolation ==
    /\ [](\A c \in AllCalls : OwnSettlements(c))
    /\ [][\A c, d \in AllCalls :
             (c # d /\ CallState(c)' # CallState(c)) => CallState(d)' = CallState(d)]_vars

\* the first stage has rejected call 1 while the same stage of call 2 is
\* still undecided
C16_Witness ==
    /\ pc[1] = "await" /\ pc[2] = "await"
    /\ Len(channels[1]) = 1 /\ channels[1][1].trigger = "reject"
    /\ Len(channels[2]) = 1 /\ ~channels[2][1].isDone
    /\ bodies[1][1].stage = bodies[2][1].stage

\* the configuration builder b holds, or will hold once it is made
ConfigurationOf(b) == configurations[builders[b].configuration]

\* C15: a build (AsNamespace or Build) fails with the configuration error
\* exactly when the global middleware list holds a stage that is not globally
\* enabled; the failed build leaves every definition and child namespace of
\* the builder as it was and returns no namespace, and the namespace a
\* successful build returns has only globally enabled stages in its list.
C15_BuildTimeError ==
    /\ [](\A b \in BuilderIds :
            LET r == builders[b].result
            IN  r.status # "none" =>
                   /\ r.status = "error" <=> NotEnabled(r.list) # <<>>
                   /\ r.status = "error" =>
                         /\ r.message = BuildError(Head(NotEnabled(r.list)))
                         /\ r.dict = NoDict
                   /\ r.status = "ok" =>
                         /\ r.dict.GlobalMiddleware = r.list
                         /\ \A i \in 1..Len(r.list) : r.list[i].GlobalEnabled)
    /\ [][\A b \in BuilderIds :
             ((AsNamespace(b) \/ Build(b))
                 /\ NotEnabled(builders[b].middlewareList) # <<>>) =>
                    /\ builders'[b].result.status = "error"
                    /\ builders'[b].definitions = builders[b].definitions
                    /\ builders'[b].namespaces = builders[b].namespaces]_vars

\* a builder with a definition and a child namespace failed to build because
\* of the second stage of its global list, and nothing of it is bound or frozen
C15_Witness ==
    \E b \in BuilderIds :
        /\ builders[b].result.status = "error"
        /\ Len(builders[b].middlewareList) = 2
        /\ builders[b].middlewareList[1].GlobalEnabled
        /\ ~builders[b].middlewareList[2].GlobalEnabled
        /\ builders[b].result.list = builders[b].middlewareList
        /\ Len(builders[b].definitions) >= 1
        /\ Len(builders[b].namespaces) = 1
        /\ ~builders[b].definitions[1].frozen
        /\ ~builders[b].namespaces[1].space.frozen

\* C19: a Configure call on one builder, with a partial configuration or with
\* a function, leaves the configuration of every other builder, and the
\* default configuration a builder made afterwards starts with, as they were.
C19_ConfigurationIsolation ==
    [][\A b \in BuilderIds : \A config \in ConfigInputs :
          Configure(b, config) =>
              /\ configurations'[DefaultRef] = configurations[DefaultRef]
              /\ \A d \in BuilderIds \ {b} : ConfigurationOf(d)' = ConfigurationOf(d)]_vars

====
